---- MODULE Spec2Model ----
(***************************************************************************)
(* Image to PDF conversion tool: the ImageFrame (canonical image, resized  *)
(* preview, rotate, flip), the ControlFrame (frames, buttons, selected     *)
(* value, add image, save as PDF) and the preview size computation of      *)
(* resize_original_image, which the program carries out in Python floats   *)
(* (IEEE-754 binary64, round to nearest even) followed by int().           *)
(***************************************************************************)
EXTENDS Integers, Sequences, FiniteSets, TLC

(***************************************************************************)
(* Python float arithmetic.  A positive float is [m, e] with value         *)
(* m * 2^e, where m = <<a3, a2, a1, a0>> are four limbs of 15 bits (the    *)
(* model checker's integers are 32 bits wide) holding the 53-bit           *)
(* significand shifted left by 7: 2^59 <= m < 2^60, the low 7 bits zero.   *)
(* Every float the program computes is the quotient or product of positive *)
(* numbers of moderate size, so zero, negative, subnormal and infinite     *)
(* values do not arise.  Integers converted to float are below 2^29,       *)
(* integer factors of a product below 2^15, truncated results below 2^30.  *)
(***************************************************************************)
R == 2^15

RECURSIVE Log2(_)
Log2(v) == IF v < 2 THEN 0 ELSE 1 + Log2(v \div 2)

\* carry propagation over five signed limb values (\div rounds down, % is
\* non-negative): limbs 2..5 of the result are in 0..R-1, limb 1 carries
\* the sign of the number
Normalize(t) ==
    LET c0 == t[5]
        c1 == t[4] + c0 \div R
        c2 == t[3] + c1 \div R
        c3 == t[2] + c2 \div R
        c4 == t[1] + c3 \div R
    IN  <<c4, c3 % R, c2 % R, c1 % R, c0 % R>>

\* u - q * w on five limbs, q < R
MulSub(u, w, q) ==
    Normalize(<<u[1] - q * w[1], u[2] - q * w[2], u[3] - q * w[3],
                u[4] - q * w[4], u[5] - q * w[5]>>)

BigAdd(u, w) ==
    Normalize(<<u[1] + w[1], u[2] + w[2], u[3] + w[3], u[4] + w[4], u[5] + w[5]>>)

BigLt(u, w) == MulSub(u, w, 1)[1] < 0

\* a four-limb significand as a five-limb number
Wide(m) == <<0, m[1], m[2], m[3], m[4]>>

\* u \div 2^s on five limbs, 0 <= s <= 15
ShiftRight(u, s) ==
    LET k == 2^s
        h == R \div k
    IN  <<u[1] \div k,
          u[2] \div k + (u[1] % k) * h,
          u[3] \div k + (u[2] % k) * h,
          u[4] \div k + (u[3] % k) * h,
          u[5] \div k + (u[4] % k) * h>>

\* float(n) for an int 0 < n < 2^29: exact (n has at most 53 bits)
FromInt(n) ==
    LET l == Log2(n)
    IN  [m |-> IF l <= 14
               THEN <<n * 2^(14 - l), 0, 0, 0>>
               ELSE <<n \div 2^(l - 14), (n % 2^(l - 14)) * 2^(29 - l), 0, 0>>,
         e |-> l - 59]

\* a rounded significand u (five limbs, at most 2^60) as a float: renormalised
\* when the rounding carried into bit 60
Pack(u, e) ==
    IF u[1] > 0
    THEN [m |-> <<2^14, 0, 0, 0>>, e |-> e + 1]
    ELSE [m |-> <<u[2], u[3], u[4], u[5]>>, e |-> e]

\* the estimated digit q of a long-division step is at most 2 too large:
\* while the remainder t = u - q * w is negative, q is lowered and w added back
RECURSIVE DivCorrect(_, _, _)
DivCorrect(t, w, q) ==
    IF t[1] >= 0 THEN <<q, t>> ELSE DivCorrect(BigAdd(t, w), w, q - 1)

DivEstimate(u, w) ==
    LET est == (u[1] * R + u[2]) \div w[2]
    IN  IF est > R - 1 THEN R - 1 ELSE est

DivTry(u, w, q) == DivCorrect(MulSub(u, w, q), w, q)

\* one base-R digit of the long division of rem by w (rem < w, w's leading
\* limb at least R/2), estimated from the leading limbs:
\* <<digit, new remainder>>
DivDigit(rem, w) ==
    DivTry(<<rem[2], rem[3], rem[4], rem[5], 0>>, w,
           DivEstimate(<<rem[2], rem[3], rem[4], rem[5], 0>>, w))

\* n digits of the quotient appended to digits: <<digits, remainder>>
RECURSIVE LongDiv(_, _, _, _)
LongDivNext(step, w, digits, n) ==
    LongDiv(step[2], w, Append(digits, step[1]), n - 1)

LongDiv(rem, w, digits, n) ==
    IF n = 0 THEN <<digits, rem>>
    ELSE LongDivNext(DivDigit(rem, w), w, digits, n)

\* the 60-bit quotient qr[1] (four digits, leading bit set) with remainder
\* qr[2], rounded to 53 bits to nearest, ties to even: the low 7 bits of the
\* quotient and the remainder decide
DivRound(qr, e) ==
    LET q0  == qr[1][4]
        low == q0 % 128
        sticky == qr[2] /= <<0, 0, 0, 0, 0>>
        odd == (q0 \div 128) % 2 = 1
        up  == \/ low > 64
               \/ low = 64 /\ sticky
               \/ low = 64 /\ ~sticky /\ odd
    IN  Pack(Normalize(<<0, qr[1][1], qr[1][2], qr[1][3],
                         q0 - low + (IF up THEN 128 ELSE 0)>>), e)

\* x / y on floats: the exact quotient rounded to nearest, ties to even.
\* The dividend significand is halved when it is not below the divisor's
\* (big), so that the 60-bit quotient has its leading bit set.
FDivAligned(x, y, big) ==
    DivRound(LongDiv(IF big THEN ShiftRight(Wide(x.m), 1) ELSE Wide(x.m),
                     Wide(y.m), <<>>, 4),
             x.e - y.e - 60 + (IF big THEN 1 ELSE 0))

FDiv(x, y) == FDivAligned(x, y, ~BigLt(Wide(x.m), Wide(y.m)))

\* the product p (five limbs, 60 + s bits) rounded to 53 bits to nearest,
\* ties to even: the low s + 7 bits are rounded away
MulRoundAt(p, s, e) ==
    LET d   == 2^(s + 7)
        lo  == p[4] * R + p[5]
        low == lo % d
        odd == (lo \div d) % 2 = 1
        up  == \/ 2 * low > d
               \/ 2 * low = d /\ odd
    IN  Pack(ShiftRight(Normalize(<<p[1], p[2], p[3], p[4],
                                    p[5] - low + (IF up THEN d ELSE 0)>>), s),
             e + s)

MulRound(p, e) == MulRoundAt(p, Log2(p[1] * R + p[2]) - 14, e)

\* n * y for an int 0 < n < 2^15 and a float y: the exact product rounded
\* to nearest, ties to even
FMulInt(n, y) ==
    MulRound(Normalize(<<0, n * y.m[1], n * y.m[2], n * y.m[3], n * y.m[4]>>), y.e)

\* x > y on positive floats
FGt(x, y) ==
    \/ x.e > y.e
    \/ x.e = y.e /\ BigLt(Wide(y.m), Wide(x.m))

\* int(x): truncation toward zero of a positive float below 2^30
Trunc(x) ==
    LET k == 0 - x.e
    IN  IF k >= 60 THEN 0
        ELSE (x.m[1] * R + x.m[2]) \div 2^(k - 30)

(***************************************************************************)
(* ImageFrame.resize_original_image, the size computation: the size of the *)
(* preview for an original of size (length, height).  resize is FALSE when *)
(* the original image object itself becomes the preview (the early return, *)
(* no call of Image.resize).  Both orientation branches of the source use  *)
(* the same two limits, 800 for the length and 600 for the height.         *)
(***************************************************************************)
MaxLength == 800
MaxHeight == 600

\* FitSize with the comparison of the two distances inverted: the side that
\* deviates least from its maximum is reduced to it
FitSizeLeastDeviation(length, height) ==
    LET aspect_ratio == FDiv(FromInt(length), FromInt(height))
        length_distance == FDiv(FromInt(length), FromInt(MaxLength))
        height_distance == FDiv(FromInt(height), FromInt(MaxHeight))
    IN  IF length < MaxLength /\ height < MaxHeight
        THEN [resize |-> FALSE, size |-> <<length, height>>]
        ELSE IF FGt(height_distance, length_distance)
        THEN LET length_resize == Trunc(FDiv(FromInt(length), length_distance))
                 height_resize == Trunc(FDiv(FromInt(length_resize), aspect_ratio))
             IN  [resize |-> TRUE, size |-> <<length_resize, height_resize>>]
        ELSE LET height_resize == Trunc(FDiv(FromInt(height), height_distance))
                 length_resize == Trunc(FMulInt(height_resize, aspect_ratio))
             IN  [resize |-> TRUE, size |-> <<length_resize, height_resize>>]

\* FitSize with a non-strict test for the image that needs no resizing
FitSizeNonStrict(length, height) ==
    LET aspect_ratio == FDiv(FromInt(length), FromInt(height))
        length_distance == FDiv(FromInt(length), FromInt(MaxLength))
        height_distance == FDiv(FromInt(height), FromInt(MaxHeight))
    IN  IF length <= MaxLength /\ height <= MaxHeight
        THEN [resize |-> FALSE, size |-> <<length, height>>]
        ELSE IF FGt(length_distance, height_distance)
        THEN LET length_resize == Trunc(FDiv(FromInt(length), length_distance))
                 height_resize == Trunc(FDiv(FromInt(length_resize), aspect_ratio))
             IN  [resize |-> TRUE, size |-> <<length_resize, height_resize>>]
        ELSE LET height_resize == Trunc(FDiv(FromInt(height), height_distance))
                 length_resize == Trunc(FMulInt(height_resize, aspect_ratio))
             IN  [resize |-> TRUE, size |-> <<length_resize, height_resize>>]

FitSize(length, height) ==
    LET aspect_ratio == FDiv(FromInt(length), FromInt(height))
        length_distance == FDiv(FromInt(length), FromInt(MaxLength))
        height_distance == FDiv(FromInt(height), FromInt(MaxHeight))
    IN  IF length < MaxLength /\ height < MaxHeight
        THEN [resize |-> FALSE, size |-> <<length, height>>]
        ELSE IF FGt(length_distance, height_distance)
        THEN LET length_resize == Trunc(FDiv(FromInt(length), length_distance))
                 height_resize == Trunc(FDiv(FromInt(length_resize), aspect_ratio))
             IN  [resize |-> TRUE, size |-> <<length_resize, height_resize>>]
        ELSE LET height_resize == Trunc(FDiv(FromInt(height), height_distance))
                 length_resize == Trunc(FMulInt(height_resize, aspect_ratio))
             IN  [resize |-> TRUE, size |-> <<length_resize, height_resize>>]

(***************************************************************************)
(* The paths the open dialog can return.  The empty path is a cancelled    *)
(* dialog, "missing.jpg" names no file; the others are images of the sizes *)
(* below.                                                                  *)
(***************************************************************************)
ImageFiles ==
    {"landscape.jpg", "edge.png", "small.png", "square.png", "strip.tif"}

OpenPaths == ImageFiles \cup {"", "missing.jpg"}

SavePaths == {"", "out.pdf"}

SizeOf(path) ==
    CASE path = "landscape.jpg" -> <<1600, 965>>
      [] path = "edge.png"      -> <<800, 600>>
      [] path = "small.png"     -> <<799, 599>>
      [] path = "square.png"    -> <<1000, 1000>>
      [] path = "strip.tif"     -> <<700, 1>>

Swap(size) == <<size[2], size[1]>>

Positive(size) == size[1] > 0 /\ size[2] > 0

\* the sizes an original image can have, and the sizes of their previews
CanonicalSizes == {SizeOf(f) : f \in ImageFiles} \cup {Swap(SizeOf(f)) : f \in ImageFiles}

PreviewSizes == {FitSize(d[1], d[2]).size : d \in CanonicalSizes}

\* FitSize tabulated over the sizes that occur (each entry computed once)
FitTable ==
    [d \in {z \in CanonicalSizes \cup PreviewSizes : Positive(z)} |-> FitSize(d[1], d[2])]

Fit(size) == FitTable[size]

(***************************************************************************)
(* PIL images.  An image is the file it was opened from, the rotations and *)
(* the mirroring applied to its pixels since (the mirror first, then rot   *)
(* quarter turns counter-clockwise), its size, and whether Image.resize    *)
(* produced it.                                                            *)
(***************************************************************************)
NoImage == [file |-> "", rot |-> 0, mirror |-> FALSE, size |-> <<0, 0>>, resized |-> FALSE]

\* PIL.Image.open(path) of an existing image file
ImageOpen(path) ==
    [file |-> path, rot |-> 0, mirror |-> FALSE, size |-> SizeOf(path), resized |-> FALSE]

\* Image.rotate(90) without expand=True: the turned image keeps the old size
ImageRotateNoExpand(img) ==
    [img EXCEPT !.rot = (@ + 1) % 4]

\* Image.rotate(90, expand=True): a quarter turn, width and height swapped
ImageRotate(img) ==
    [img EXCEPT !.rot = (@ + 1) % 4, !.size = Swap(@)]

\* PIL.ImageOps.mirror: left-right mirror; a mirror after r quarter turns is
\* 4 - r quarter turns after a mirror
ImageMirror(img) ==
    [img EXCEPT !.rot = (4 - @) % 4, !.mirror = ~@]

\* Image.resize(size), which raises ValueError unless both sides are >= 1
ResizeRaises(size) == size[1] < 1 \/ size[2] < 1

ImageResize(img, size) ==
    [img EXCEPT !.size = size, !.resized = TRUE]

(***************************************************************************)
(* ImageFrame.  Its methods return [exc, self]: the exception raised       *)
(* ("none" when the method returns) and the frame as the method leaves it. *)
(***************************************************************************)
resize_original_image(self) ==
    LET fit == Fit(self.original_image.size)
    IN  IF ~fit.resize
        THEN [exc |-> "none",
              self |-> [self EXCEPT !.resized_image = self.original_image]]
        ELSE IF ResizeRaises(fit.size)
        THEN [exc |-> "ValueError", self |-> self]
        ELSE [exc |-> "none",
              self |-> [self EXCEPT !.resized_image =
                                        ImageResize(self.original_image, fit.size)]]

apply_image_edit(self) == resize_original_image(self)

ImageFrame(image) ==
    IF image \notin ImageFiles
    THEN [exc |-> "FileNotFoundError",
          self |-> [original_image |-> NoImage, resized_image |-> NoImage]]
    ELSE resize_original_image(
             [original_image |-> ImageOpen(image), resized_image |-> NoImage])

rotate(self) ==
    apply_image_edit([self EXCEPT !.original_image = ImageRotate(@)])

flip(self) ==
    apply_image_edit([self EXCEPT !.original_image = ImageMirror(@)])

(***************************************************************************)
(* ControlFrame.  selected_value is the IntVar of the radio buttons,       *)
(* buttons the values of the radio buttons created so far, save_button the *)
(* state of the "Save as PDF" button on top.  last is the outcome of the   *)
(* latest callback: the exception it raised and the document it wrote.     *)
(***************************************************************************)
VARIABLES frames, buttons, selected_value, save_button, last

vars == <<frames, buttons, selected_value, save_button, last>>

MaxFrames == 2

Outcome(op, exc, doc) == [op |-> op, exc |-> exc, doc |-> doc]

Init ==
    /\ frames = <<>>
    /\ buttons = <<>>
    /\ selected_value = 0
    /\ save_button = "disabled"
    /\ last = Outcome("init", "none", <<>>)

\* change_frame on a list of frames: the exception of the indexing
change_frame(fs, sel) ==
    IF sel < Len(fs) THEN "none" ELSE "IndexError"

\* add_new_image creating the radio button before the frame is constructed
add_new_image_button_first(filename) ==
    LET new_frame == ImageFrame(filename)
        fs == Append(frames, new_frame.self)
        raised == change_frame(fs, selected_value)
    IN  IF new_frame.exc /= "none"
        THEN /\ Len(buttons) < MaxFrames
             /\ buttons' = Append(buttons, Len(buttons))
             /\ last' = Outcome("add", new_frame.exc, <<>>)
             /\ UNCHANGED <<frames, selected_value, save_button>>
        ELSE /\ Len(frames) < MaxFrames
             /\ frames' = fs
             /\ buttons' = Append(buttons, Len(buttons))
             /\ save_button' = IF raised = "none" THEN "normal" ELSE save_button
             /\ last' = Outcome("add", raised, <<>>)
             /\ UNCHANGED selected_value

\* add_new_image taking the value of the new radio button from the frames,
\* which already hold the new frame: the values are numbered from 1
add_new_image_value_from_frames(filename) ==
    LET new_frame == ImageFrame(filename)
        fs == Append(frames, new_frame.self)
        raised == change_frame(fs, selected_value)
    IN  IF new_frame.exc /= "none"
        THEN /\ last' = Outcome("add", new_frame.exc, <<>>)
             /\ UNCHANGED <<frames, buttons, selected_value, save_button>>
        ELSE /\ Len(frames) < MaxFrames
             /\ frames' = fs
             /\ buttons' = Append(buttons, Len(fs))
             /\ save_button' = IF raised = "none" THEN "normal" ELSE save_button
             /\ last' = Outcome("add", raised, <<>>)
             /\ UNCHANGED selected_value

\* filename is the answer of the open dialog, "" when it is cancelled
add_new_image(filename) ==
    LET new_frame == ImageFrame(filename)
        fs == Append(frames, new_frame.self)
        raised == change_frame(fs, selected_value)
    IN  IF new_frame.exc /= "none"
        THEN /\ last' = Outcome("add", new_frame.exc, <<>>)
             /\ UNCHANGED <<frames, buttons, selected_value, save_button>>
        ELSE /\ Len(frames) < MaxFrames
             /\ frames' = fs
             /\ buttons' = Append(buttons, Len(buttons))
             /\ save_button' = IF raised = "none" THEN "normal" ELSE save_button
             /\ last' = Outcome("add", raised, <<>>)
             /\ UNCHANGED selected_value

\* a click on radio button b: the variable takes the button's value, then
\* change_frame runs
select(b) ==
    /\ selected_value' = buttons[b]
    /\ last' = Outcome("select", change_frame(frames, buttons[b]), <<>>)
    /\ UNCHANGED <<frames, buttons, save_button>>

\* the Rotate button of frame i
rotate_button(i) ==
    LET r == rotate(frames[i])
    IN  /\ frames' = [frames EXCEPT ![i] = r.self]
        /\ last' = Outcome("rotate", r.exc, <<>>)
        /\ UNCHANGED <<buttons, selected_value, save_button>>

\* the Flip button of frame i
flip_button(i) ==
    LET r == flip(frames[i])
    IN  /\ frames' = [frames EXCEPT ![i] = r.self]
        /\ last' = Outcome("flip", r.exc, <<>>)
        /\ UNCHANGED <<buttons, selected_value, save_button>>

\* the pages Image.save writes: the image save is called on, then append_images
PdfPages(first, append_images) == <<first>> \o append_images

\* the list of save_as_pdf built from the previews instead of the originals
images_of_previews == [i \in 1..Len(frames) |-> frames[i].resized_image]

\* the list comprehension of save_as_pdf
images == [i \in 1..Len(frames) |-> frames[i].original_image]

\* save_as_pdf writing a document of no pages when there is no image
save_as_pdf_empty_document(directory) ==
    /\ last' = IF directory = "" THEN Outcome("cancel", "none", <<>>)
               ELSE IF Len(images) = 0 THEN Outcome("save", "none", <<>>)
               ELSE Outcome("save", "none", PdfPages(Head(images), Tail(images)))
    /\ UNCHANGED <<frames, buttons, selected_value, save_button>>

\* directory is the answer of the save dialog, "" when it is cancelled;
\* images[0] raises IndexError on an empty list
save_as_pdf(directory) ==
    /\ last' = IF directory = "" THEN Outcome("cancel", "none", <<>>)
               ELSE IF Len(images) = 0 THEN Outcome("save", "IndexError", <<>>)
               ELSE Outcome("save", "none", PdfPages(Head(images), Tail(images)))
    /\ UNCHANGED <<frames, buttons, selected_value, save_button>>

Next ==
    \/ \E filename \in OpenPaths : add_new_image(filename)
    \/ \E b \in 1..Len(buttons) : select(b)
    \/ \E i \in 1..Len(frames) : rotate_button(i)
    \/ \E i \in 1..Len(frames) : flip_button(i)
    \/ \E directory \in SavePaths : save_as_pdf(directory)

Spec == Init /\ [][Next]_vars

(***************************************************************************)
(* Properties.                                                             *)
(***************************************************************************)
Original(i) == frames[i].original_image

Preview(i) == frames[i].resized_image

\* the size the image of frame i has by its file and the turns applied to it
TurnedSize(i) ==
    IF Original(i).rot % 2 = 0 THEN SizeOf(Original(i).file)
    ELSE Swap(SizeOf(Original(i).file))

Saved == last.op = "save" /\ last.exc = "none"

\* C1: a save to a non-empty path with N >= 1 images writes exactly N pages,
\* page i being the current original image of frame i (the turns and mirrors
\* applied so far) at its full size, never the resized preview.
C1_SaveWritesOriginals ==
    Saved =>
        /\ Len(frames) >= 1
        /\ Len(last.doc) = Len(frames)
        /\ \A i \in 1..Len(frames) :
              /\ last.doc[i] = Original(i)
              /\ last.doc[i].size = TurnedSize(i)
              /\ ~last.doc[i].resized

\* two pages written, one of them of a turned image whose preview is smaller
C1_Witness ==
    /\ Saved
    /\ Len(last.doc) = 2
    /\ \E i \in 1..Len(frames) :
          /\ Original(i).rot = 1
          /\ Preview(i).size /= Original(i).size
          /\ last.doc[i].size = <<965, 1600>>

\* C2: every successful add appends the image at the end and sets the selected
\* index to the index of the new element, Len(frames) - 1.
C2_AddSelectsNewImage ==
    (last.op = "add" /\ last.exc = "none") => selected_value = Len(frames) - 1

\* C3: in every state reached after an operation returns, each image's preview
\* has the size the fitting yields for the image's current original size.
C3_PreviewIsFitOfOriginal ==
    last.exc = "none" =>
        \A i \in 1..Len(frames) : Preview(i).size = Fit(Original(i).size).size

\* C4: the fitting of every size with positive sides has positive sides; stated
\* of the sizes the original images take.
C4_FitIsPositive ==
    \A i \in 1..Len(frames) :
        Positive(Original(i).size) => Positive(Fit(Original(i).size).size)

C6_AsStated ==
    \A i \in 1..Len(frames) :
        /\ Original(i).size = <<799, 599>> => Preview(i).size = <<799, 599>>
        /\ Original(i).size = <<800, 600>> => Preview(i).size /= <<800, 600>>

\* C6 amended: an original of 799 x 599 is itself the preview (no resizing);
\* an original of 800 x 600 fails the strict test and is resized, to a copy
\* whose size is again 800 x 600.
C6_NoOpBoundary ==
    \A i \in 1..Len(frames) :
        /\ Original(i).size = <<799, 599>> =>
              /\ Preview(i) = Original(i)
              /\ ~Fit(Original(i).size).resize
        /\ Original(i).size = <<800, 600>> =>
              /\ Preview(i).resized
              /\ Preview(i).size = <<800, 600>>
              /\ Fit(Original(i).size).resize

\* both boundary images loaded
C6_Witness ==
    /\ \E i \in 1..Len(frames) : Original(i).size = <<799, 599>>
    /\ \E i \in 1..Len(frames) : Original(i).size = <<800, 600>>

\* C7: fitting is idempotent: the fitting of a fitted size (the size of a
\* preview) is that size.
C7_FitIsIdempotent ==
    \A i \in 1..Len(frames) : Fit(Preview(i).size).size = Preview(i).size

\* C8 as stated: a save with no image fails with EmptyExportError and writes
\* nothing.
C8_AsStated ==
    (Len(frames) = 0 /\ last.op = "save") =>
        /\ last.exc = "EmptyExportError"
        /\ last.doc = <<>>

\* C8 amended: while there is no image the save button is disabled; a call of
\* save_as_pdf with no image and a non-empty path raises IndexError and writes
\* nothing.
C8_EmptySave ==
    /\ Len(frames) = 0 => save_button = "disabled"
    /\ (Len(frames) = 0 /\ last.op = "save") =>
          /\ last.exc = "IndexError"
          /\ last.doc = <<>>

C8_Witness == Len(frames) = 0 /\ last.op = "save" /\ save_button = "disabled"

\* C9: an add whose path cannot be loaded (no such file, or the empty path of
\* a cancelled dialog) and a cancelled save change neither the frames, nor the
\* buttons, nor the selected value, and write nothing.
C9_FailedAddChangesNothing ==
    [][(\/ last'.op = "add" /\ last'.exc = "FileNotFoundError"
        \/ last'.op = "cancel")
       => /\ frames' = frames
          /\ buttons' = buttons
          /\ selected_value' = selected_value
          /\ save_button' = save_button
          /\ last'.doc = <<>>]_vars

\* a failed add after two images were loaded and the second was selected
C9_Witness ==
    /\ last.op = "add"
    /\ last.exc = "FileNotFoundError"
    /\ Len(frames) = 2
    /\ Len(buttons) = 2
    /\ selected_value = 1

\* C10: each rotate swaps the width and the height of the original image, so
\* that the size is the file's after an even number of rotations (four of them
\* in a row), and the preview's size is then the one it had at creation.
C10_RotateSwapsSize ==
    /\ [][last'.op = "rotate" =>
             \E i \in 1..Len(frames) :
                 /\ Len(frames') = Len(frames)
                 /\ frames'[i].original_image.size = Swap(Original(i).size)
                 /\ frames'[i].original_image.rot = (Original(i).rot + 1) % 4
                 /\ \A j \in 1..Len(frames) : j /= i => frames'[j] = frames[j]]_vars
    /\ [](\A i \in 1..Len(frames) :
             /\ Original(i).size = TurnedSize(i)
             /\ Original(i).rot % 2 = 0 =>
                   Preview(i).size = Fit(SizeOf(Original(i).file)).size)

\* a rotate of the only image, unmirrored and not square, has brought it back
\* to the orientation of its file
C10_Witness ==
    /\ last.op = "rotate"
    /\ Len(frames) = 1
    /\ \E i \in 1..Len(frames) :
          /\ Original(i).rot = 0
          /\ ~Original(i).mirror
          /\ Original(i).size = <<1600, 965>>
          /\ Preview(i).size = <<800, 482>>

\* C11: whenever there is at least one image, the selected value is an index
\* of frames (0 <= selected_value < Len(frames)), whatever adds (loaded or
\* failed), radio button clicks, rotates and flips came before; and no step
\* makes frames shorter.
C11_SelectedInRange ==
    /\ [](Len(frames) > 0 => selected_value \in 0..(Len(frames) - 1))
    /\ [][Len(frames') >= Len(frames)]_vars

\* the second of two images was selected by its radio button (an add leaves
\* the selected value at 0), and an image was flipped after that
C11_Witness ==
    /\ last.op = "flip"
    /\ Len(frames) = 2
    /\ selected_value = 1
    /\ \E i \in 1..Len(frames) : Original(i).mirror
====
